---- MODULE Spec2Model ----
(***************************************************************************)
(* Riva Choice (src/index.tsx): the App component's state and its event    *)
(* handlers as a state machine.  Strings are sequences of one-character    *)
(* strings, a JS Map is the sequence of its entries in insertion order,    *)
(* an optional value is a sequence of length 0 or 1.                        *)
(***************************************************************************)
EXTENDS Naturals, Sequences, FiniteSets

\* ------------------------------------------------------------------ bounds

\* crypto.randomUUID() calls in a run of Spec, of any length.
MaxIds == 2
\* crypto.randomUUID() calls in a run of SpecOps and SpecHandlers.
MaxOpsIds == 4
\* Clicks, keystrokes and drops on the grid in a run of SpecOps and SpecHandlers.
MaxOps == 2
\* processAndSetFiles runs awaiting their archives at one time.
MaxImports == 1
\* setTimeout callbacks of organizeImages pending at one time.
MaxTimers == 1

\* ----------------------------------------------------------------- strings

Digits == {"0", "1", "2", "3", "4", "5", "6", "7", "8", "9"}
Separators == {"-", "_"}
Whitespace == {" "}

Min(S) == CHOOSE x \in S : \A y \in S : x <= y
Max(S) == CHOOSE x \in S : \A y \in S : x >= y

\* String.prototype.trim
Trim(s) ==
    LET keep == {i \in 1..Len(s) : s[i] \notin Whitespace}
    IN  IF keep = {} THEN <<>> ELSE SubSeq(s, Min(keep), Max(keep))

\* s.split('.').slice(0, -1).join('.'): the text before the last '.', and the
\* empty string when s holds no '.'.
StripExtension(s) ==
    LET dots == {i \in 1..Len(s) : s[i] = "."}
    IN  IF dots = {} THEN <<>> ELSE SubSeq(s, 1, Max(dots) - 1)

\* s.split('.').pop(): the text after the last '.', and s when it holds none.
LastSegment(s) ==
    LET dots == {i \in 1..Len(s) : s[i] = "."}
    IN  IF dots = {} THEN s ELSE SubSeq(s, Max(dots) + 1, Len(s))

\* s.split('/').pop() || s
BaseName(s) ==
    LET slashes == {i \in 1..Len(s) : s[i] = "/"}
        last == IF slashes = {} THEN s ELSE SubSeq(s, Max(slashes) + 1, Len(s))
    IN  IF last = <<>> THEN s ELSE last

UpperToLower ==
    [c \in {"Z", "I", "P", "J", "G", "N"} |->
        CASE c = "Z" -> "z" [] c = "I" -> "i" [] c = "P" -> "p"
          [] c = "J" -> "j" [] c = "G" -> "g" [] c = "N" -> "n"]

\* String.prototype.toLowerCase over the letters the model's names use.
ToLowerCase(s) ==
    [i \in 1..Len(s) |-> IF s[i] \in DOMAIN UpperToLower THEN UpperToLower[s[i]] ELSE s[i]]

EndsWith(s, suffix) ==
    /\ Len(s) >= Len(suffix)
    /\ SubSeq(s, Len(s) - Len(suffix) + 1, Len(s)) = suffix

\* ------------------------------------------------------- getSkuFromFilename

SkuDigitsA == 6
SkuDigitsB == 5
SkuDigitsC == 3
SkuLen == SkuDigitsA + 1 + SkuDigitsB + 1 + SkuDigitsC

AllDigits(s, from, to) == \A i \in from..to : s[i] \in Digits

\* /(\d{6}-\d{5}-\d{3})/ matches at position i of s.
SkuMatchesAt(s, i) ==
    /\ i + SkuLen - 1 <= Len(s)
    /\ AllDigits(s, i, i + SkuDigitsA - 1)
    /\ s[i + SkuDigitsA] = "-"
    /\ AllDigits(s, i + SkuDigitsA + 1, i + SkuDigitsA + SkuDigitsB)
    /\ s[i + SkuDigitsA + SkuDigitsB + 1] = "-"
    /\ AllDigits(s, i + SkuDigitsA + SkuDigitsB + 2, i + SkuLen - 1)

SkuMatches(s) == {i \in 1..Len(s) : SkuMatchesAt(s, i)}

\* name.replace(/\s*\([^)]*\)$/, ''): the leftmost match is cut. A match
\* starts at i when white space runs from i to a '(' at p, no ')' lies
\* between p and the last character, and the last character is ')'.
StripParenthesized(s) ==
    LET n == Len(s)
        starts == {i \in 1..n : \E p \in i..(n - 1) :
                      /\ \A q \in i..(p - 1) : s[q] \in Whitespace
                      /\ s[p] = "("
                      /\ \A q \in (p + 1)..(n - 1) : s[q] # ")"
                      /\ s[n] = ")"}
    IN  IF starts = {} THEN s ELSE SubSeq(s, 1, Min(starts) - 1)

\* A faulty StripSuffixOnce: a lone trailing '-' is first turned into '_'.
StripSuffixOnceHyphenToUnderscore(s) ==
    LET n == Len(s)
        numbered == {p \in 1..(n - 1) : s[p] \in Separators /\ AllDigits(s, p + 1, n)}
    IN  IF numbered # {} THEN SubSeq(s, 1, Min(numbered) - 1)
        ELSE IF n > 0 /\ s[n] = "-" THEN SubSeq(s, 1, n - 1) \o <<"_">>
        ELSE IF n > 0 /\ s[n] = "_" THEN SubSeq(s, 1, n - 1)
        ELSE s

\* name.replace(/[-_]\d+$|[-_]$/, ''): one trailing separator-and-digits, or
\* one lone trailing separator, is cut.
StripSuffixOnce(s) ==
    LET n == Len(s)
        numbered == {p \in 1..(n - 1) : s[p] \in Separators /\ AllDigits(s, p + 1, n)}
    IN  IF numbered # {} THEN SubSeq(s, 1, Min(numbered) - 1)
        ELSE IF n > 0 /\ s[n] \in Separators THEN SubSeq(s, 1, n - 1)
        ELSE s

\* do { previousName = name; name = strip(name) }
\* while (name !== previousName && name.length > 0)
RECURSIVE StripSuffixLoop(_)
StripSuffixLoop(name) ==
    LET next == StripSuffixOnce(name)
    IN  IF next # name /\ Len(next) > 0 THEN StripSuffixLoop(next) ELSE next

\* The working strings of the loop: `name` before its first iteration and after
\* each one, for `fuel` iterations at most.
RECURSIVE StripSuffixTrace(_, _)
StripSuffixTrace(name, fuel) ==
    LET next == StripSuffixOnce(name)
    IN  IF fuel = 0 THEN <<name>>
        ELSE IF next # name /\ Len(next) > 0 THEN <<name>> \o StripSuffixTrace(next, fuel - 1)
        ELSE <<name, next>>

\* A faulty getSkuFromFilename: the suffix stripping is applied to the code too.
getSkuFromFilenameStripsCode(filename) ==
    IF SkuMatches(filename) # {}
    THEN StripSuffixLoop(SubSeq(filename, Min(SkuMatches(filename)),
                                Min(SkuMatches(filename)) + SkuLen - 1))
    ELSE LET stripped == Trim(StripExtension(filename))
             name == StripSuffixLoop(StripParenthesized(stripped))
         IN  IF name # <<>> THEN name ELSE stripped

getSkuFromFilename(filename) ==
    IF SkuMatches(filename) # {}
    THEN SubSeq(filename, Min(SkuMatches(filename)), Min(SkuMatches(filename)) + SkuLen - 1)
    ELSE LET stripped == Trim(StripExtension(filename))
             name == StripSuffixLoop(StripParenthesized(stripped))
         IN  IF name # <<>> THEN name ELSE stripped

Unidentified == <<"U", "n", "i", "d", "e", "n", "t", "i", "f", "i", "e", "d">>

\* sku || 'Unidentified'
GroupNameOf(filename) ==
    IF getSkuFromFilename(filename) # <<>> THEN getSkuFromFilename(filename) ELSE Unidentified

\* ------------------------------------------------------------------- state

VARIABLES
    files,              \* useState<File[]>: the selected files
    organizedImages,    \* useState<Map<string, OrganizedImage[]>>: entries in insertion order
    isLoading,          \* organizing (its 50 ms timer is pending)
    isProcessingFiles,  \* processAndSetFiles is running
    error,              \* string | null: <<>> or <<message>>
    draggedItem,        \* {group, index} | null: <<>> or <<[group, index]>>
    draggedGroupSku,    \* string | null: <<>> or <<sku>>
    dragging,           \* the browser's drag under way: <<>> or <<its source node>>
    timers,             \* pending setTimeout callbacks, each with the files its closure holds
    imports,            \* processAndSetFiles runs waiting at Promise.allSettled
    revoked,            \* object URLs given to URL.revokeObjectURL
    nextId,             \* the next crypto.randomUUID()
    isZippingAll,       \* handleDownloadAll is running
    zippingFolder,      \* string | null: <<>> or <<sku>> of the running single-group export
    filenamePrefix,     \* the global default prefix
    zipping,            \* archives waiting at zip.generateAsync, each with its entries
    nextUrl,            \* the next URL.createObjectURL()
    crashed,            \* the component tree is gone: a render threw, or it was unmounted
    last,               \* history: the handler that ran last, and its arguments
    ops                 \* history: the events on the grid so far, counted in the bounded runs

vars == <<files, organizedImages, isLoading, isProcessingFiles, error, draggedItem,
          draggedGroupSku, dragging, timers, imports, revoked, nextId, nextUrl, crashed, last, ops,
          isZippingAll, zippingFolder, filenamePrefix, zipping>>

\* A faulty isAnyZipping: the export of one group is not looked at.
isAnyZippingAllOnly == isZippingAll

\* const isAnyZipping = isZippingAll || zippingFolder !== null
isAnyZipping == isZippingAll \/ zippingFolder # <<>>

\* useState('eci')
DefaultPrefix == <<"e", "c", "i">>

\* What every handler but the export's and the global prefix field's leaves alone.
ExportIdle == UNCHANGED <<isZippingAll, zippingFolder, filenamePrefix, zipping>>

\* ------------------------------------------------------------- Map, Array

\* What an array slot holds after splice(..., undefined): no OrganizedImage.
Undefined == [undefined |-> TRUE]

MapKeys(m) == {m[i].sku : i \in DOMAIN m}
MapHas(m, k) == k \in MapKeys(m)
MapIndex(m, k) == CHOOSE i \in DOMAIN m : m[i].sku = k
\* Map.prototype.get(k) || []
MapGetOrEmpty(m, k) == IF MapHas(m, k) THEN m[MapIndex(m, k)].images ELSE <<>>
\* Map.prototype.set: an existing key keeps its place, a new key goes last.
MapSet(m, k, v) ==
    IF MapHas(m, k)
    THEN [m EXCEPT ![MapIndex(m, k)] = [sku |-> k, images |-> v]]
    ELSE Append(m, [sku |-> k, images |-> v])
MapDelete(m, k) == SelectSeq(m, LAMBDA e : e.sku # k)

\* Array.prototype.splice(start, 0, x), start counted from 0 and clamped.
SpliceInsert(list, start, x) ==
    LET at == IF start > Len(list) THEN Len(list) ELSE start
    IN  SubSeq(list, 1, at) \o <<x>> \o SubSeq(list, at + 1, Len(list))
\* What is left after Array.prototype.splice(start, 1).
SpliceRemove(list, start) ==
    IF start < Len(list)
    THEN SubSeq(list, 1, start) \o SubSeq(list, start + 2, Len(list))
    ELSE list
\* const [removed] = list.splice(start, 1)
SpliceRemoved(list, start) == IF start < Len(list) THEN list[start + 1] ELSE Undefined

Range(list) == {list[j] : j \in DOMAIN list}
AllImages(m) == UNION {Range(m[i].images) : i \in DOMAIN m}
UrlsOf(m) == {img.url : img \in AllImages(m)}
HasUndefined(m) == \E i \in DOMAIN m : \E j \in 1..Len(m[i].images) : m[i].images[j] = Undefined

\* ------------------------------------------------------------------ inputs

\* The files a user can pick or drop, and what JSZip finds in the archives.
PngA1 == [name |-> <<"a", "-", "1", ".", "p", "n", "g">>, type |-> "image/png"]
PngA2 == [name |-> <<"a", "_", "2", ".", "p", "n", "g">>, type |-> "image/png"]
PngA3 == [name |-> <<"a", "-", "3", ".", "p", "n", "g">>, type |-> "image/png"]
PngB == [name |-> <<"b", ".", "p", "n", "g">>, type |-> "image/png"]
PngDot == [name |-> <<".", "p", "n", "g">>, type |-> "image/png"]
TxtN == [name |-> <<"n", ".", "t", "x", "t">>, type |-> "text/plain"]
ZipGood == [name |-> <<"g", ".", "z", "i", "p">>, type |-> "application/zip"]
ZipBad == [name |-> <<"k", ".", "Z", "I", "P">>, type |-> ""]


\* JSZip.loadAsync(zipFile) resolves.
ZipReadable(zipFile) == zipFile # ZipBad
\* zip.forEach's entries.
ZipEntries(zipFile) ==
    IF zipFile = ZipGood
    THEN << [name |-> <<"d", "/">>, dir |-> TRUE],
            [name |-> <<"d", "/", "a", "_", "2", ".", "P", "N", "G">>, dir |-> FALSE],
            [name |-> <<"n", ".", "t", "x", "t">>, dir |-> FALSE] >>
    ELSE <<>>

\* The lists of files one change or drop event hands over.
Selections ==
    { <<TxtN>>, <<PngA1, PngB>>, <<ZipGood, ZipBad>> }
\* Longer lists, for the runs of bounded length.
OpsSelections ==
    { <<PngA1, PngB, PngA2>>, <<PngA1, PngA2, PngA3>>, <<PngDot, PngB, PngA1>>, <<ZipBad>> }

\* The values typed into a group's name field, trimmed (the second is empty).
SkuInputs == {<<"a">>, <<"z">>, <<>>}
OpsSkuInputs == SkuInputs \cup {<<"b">>}
\* The values typed into an image's prefix field.
PrefixInputs == {<<"x">>, <<>>}

\* ------------------------------------------------------------ import

TypeIncludesZip(type) == type \in {"application/zip"}
TypeStartsWithImage(type) == type \in {"image/png"}

\* file.type.includes('zip') || file.name.split('.').pop()?.toLowerCase() === 'zip'
IsZip(file) ==
    \/ TypeIncludesZip(file.type)
    \/ ToLowerCase(LastSegment(file.name)) = <<"z", "i", "p">>

\* /\.(jpe?g|png|gif|webp)$/i
ImageExtensions ==
    { <<".", "j", "p", "g">>, <<".", "j", "p", "e", "g">>, <<".", "p", "n", "g">>,
      <<".", "g", "i", "f">>, <<".", "w", "e", "b", "p">> }
HasImageExtension(name) == \E ext \in ImageExtensions : EndsWith(ToLowerCase(name), ext)

\* extractImagesFromZip of a readable archive: one File per image entry.
extractImagesFromZip(zipFile) ==
    LET entries == ZipEntries(zipFile)
        kept == SelectSeq(entries, LAMBDA e : ~e.dir /\ HasImageExtension(e.name))
    IN  [i \in 1..Len(kept) |-> [name |-> BaseName(kept[i].name), type |-> ""]]

\* The loop of processAndSetFiles: the images, and the archives to decode.
ImageFilesOf(incoming) == SelectSeq(incoming, LAMBDA f : ~IsZip(f) /\ TypeStartsWithImage(f.type))
ZipFilesOf(incoming) == SelectSeq(incoming, LAMBDA f : IsZip(f))

RECURSIVE ExtractedFromZips(_)
ExtractedFromZips(zips) ==
    IF zips = <<>> THEN <<>>
    ELSE (IF ZipReadable(Head(zips)) THEN extractImagesFromZip(Head(zips)) ELSE <<>>)
         \o ExtractedFromZips(Tail(zips))

\* processingErrors: one message per archive that failed, by the archive's name.
ProcessingErrors(zips) ==
    LET failed == SelectSeq(zips, LAMBDA z : ~ZipReadable(z))
    IN  [i \in 1..Len(failed) |-> failed[i].name]

NoError == <<>>
ErrSelectFirst == <<[msg |-> "Please select some images first.", failed |-> <<>>]>>
ErrSomeFailed(names) == <<[msg |-> "Some files failed to process", failed |-> names]>>

\* What the code after the await sets: files, and error when an archive failed.
FilesAfterImport(images, zips) == images \o ExtractedFromZips(zips)
ErrorAfterImport(zips, before) ==
    IF ProcessingErrors(zips) # <<>> THEN ErrSomeFailed(ProcessingErrors(zips)) ELSE before

\* ----------------------------------------------------------------- Init

Ran(op, args) == [op |-> op, args |-> args]

Init ==
    /\ files = <<>>
    /\ organizedImages = <<>>
    /\ isLoading = FALSE
    /\ isProcessingFiles = FALSE
    /\ error = NoError
    /\ draggedItem = <<>>
    /\ draggedGroupSku = <<>>
    /\ dragging = <<>>
    /\ timers = <<>>
    /\ imports = <<>>
    /\ revoked = {}
    /\ nextId = 1
    /\ nextUrl = 1
    /\ crashed = FALSE
    /\ last = [op |-> "mount", args |-> <<>>]
    /\ ops = 0
    /\ isZippingAll = FALSE
    /\ zippingFolder = <<>>
    /\ filenamePrefix = DefaultPrefix
    /\ zipping = <<>>

\* ------------------------------------------------- import: lines 57-142, 310-317

\* processAndSetFiles as the closure that holds `captured` as organizedImages:
\* clearOrganizedImages revokes the URLs of that Map. With no archive in the
\* list the await resolves in a microtask, before any other event; with one,
\* the run waits in `imports`.
processAndSetFiles(incoming, captured, op) ==
    /\ ~crashed
    /\ revoked' = revoked \cup UrlsOf(captured)
    /\ organizedImages' = <<>>
    /\ last' = Ran(op, <<incoming>>)
    /\ IF ZipFilesOf(incoming) = <<>>
       THEN /\ files' = ImageFilesOf(incoming)
            /\ error' = NoError
            /\ isProcessingFiles' = FALSE
            /\ UNCHANGED imports
       ELSE /\ files' = <<>>
            /\ error' = NoError
            /\ isProcessingFiles' = TRUE
            /\ imports' = Append(imports, [images |-> ImageFilesOf(incoming),
                                           zips |-> ZipFilesOf(incoming)])
    /\ UNCHANGED <<isLoading, draggedItem, draggedGroupSku, dragging, timers, nextId, nextUrl,
                   crashed>>

\* The file input's change event: the handler of the latest render.
handleFileChange(incoming) ==
    processAndSetFiles(incoming, organizedImages, "handleFileChange")

\* A drop on the drop zone. useCallback(..., []) keeps the first render's
\* handler, whose organizedImages is the initial empty Map.
handleDropUpload(incoming) ==
    /\ Len(incoming) > 0
    /\ processAndSetFiles(incoming, <<>>, "handleDropUpload")

\* Promise.allSettled has settled: the rest of processAndSetFiles.
ProcessSettled ==
    /\ ~crashed
    /\ \E i \in DOMAIN imports :
        /\ files' = FilesAfterImport(imports[i].images, imports[i].zips)
        /\ error' = ErrorAfterImport(imports[i].zips, error)
        /\ isProcessingFiles' = FALSE
        /\ imports' = SubSeq(imports, 1, i - 1) \o SubSeq(imports, i + 1, Len(imports))
        /\ last' = Ran("ProcessSettled", <<>>)
    /\ UNCHANGED <<organizedImages, isLoading, draggedItem, draggedGroupSku, dragging, timers,
                   revoked, nextId, nextUrl, crashed>>

\* ------------------------------------------------- faulty variants
\* Each differs from the operator of the code in the one place its comment names.

\* effectivePrefix that reads an empty override as no override (image.prefix || filenamePrefix).
effectivePrefixEmptyIsUnset(image, global) ==
    Trim(IF image.prefix = <<>> THEN global
         ELSE IF image.prefix[1] = <<>> THEN global
         ELSE image.prefix[1])

\* DeleteImageUpdate that keeps the group when its last image goes.
DeleteImageKeepsEmptyGroup(prev, sku, imageId) ==
    LET imageGroup == MapGetOrEmpty(prev, sku)
        newImageGroup == SelectSeq(imageGroup, LAMBDA img : img.id # imageId)
    IN  IF ~MapHas(prev, sku) THEN prev
        ELSE MapSet(prev, sku, newImageGroup)

\* DeleteImageUpdate that drops the image found and the one after it.
DeleteImageAndNext(prev, sku, imageId) ==
    LET imageGroup == MapGetOrEmpty(prev, sku)
        at == {i \in DOMAIN imageGroup : imageGroup[i].id = imageId}
        kept == {i \in DOMAIN imageGroup : i \notin at /\ (i - 1) \notin at}
        RECURSIVE Keep(_)
        Keep(i) == IF i > Len(imageGroup) THEN <<>>
                   ELSE (IF i \in kept THEN <<imageGroup[i]>> ELSE <<>>) \o Keep(i + 1)
    IN  IF ~MapHas(prev, sku) THEN prev
        ELSE IF Len(Keep(1)) > 0 THEN MapSet(prev, sku, Keep(1))
        ELSE MapDelete(prev, sku)

\* DuplicateUpdate that puts the copy before the original.
DuplicateBeforeOriginal(prev, sku, index, id) ==
    LET imageGroup == MapGetOrEmpty(prev, sku)
    IN  IF ~MapHas(prev, sku) THEN prev
        ELSE IF index >= Len(imageGroup) THEN prev
        ELSE MapSet(prev, sku,
                    SpliceInsert(imageGroup, index,
                                 [imageGroup[index + 1] EXCEPT !.id = id]))

\* SkuChangeUpdate that merges the renamed group's images in front.
SkuChangePrepends(prev, oldSku, newSku) ==
    LET images == MapGetOrEmpty(prev, oldSku)
        newMap == MapDelete(prev, oldSku)
    IN  IF MapHas(newMap, newSku)
        THEN MapSet(newMap, newSku, images \o MapGetOrEmpty(newMap, newSku))
        ELSE MapSet(newMap, newSku, images)

\* GroupDropUpdate that keeps the source group.
GroupDropKeepsSource(prev, sourceSku, targetSku) ==
    LET sourceImages == MapGetOrEmpty(prev, sourceSku)
        targetImages == MapGetOrEmpty(prev, targetSku)
    IN  MapSet(prev, targetSku, targetImages \o sourceImages)

\* DropReorderUpdate that keeps a source group it has emptied.
DropReorderKeepsEmptySource(prev, sourceGroup, sourceIndex, targetGroup, targetIndex) ==
    LET whole == MapGetOrEmpty(prev, sourceGroup)
        removed == SpliceRemoved(whole, sourceIndex)
        sourceImageGroup == SpliceRemove(whole, sourceIndex)
    IN  IF sourceGroup = targetGroup
        THEN MapSet(prev, sourceGroup, SpliceInsert(sourceImageGroup, targetIndex, removed))
        ELSE LET targetImageGroup == MapGetOrEmpty(prev, targetGroup)
                 withTarget == MapSet(prev, targetGroup,
                                      SpliceInsert(targetImageGroup, targetIndex, removed))
             IN  MapSet(withTarget, sourceGroup, sourceImageGroup)

\* DropReorderUpdate that, within one group, inserts before it removes.
DropReorderInsertsFirst(prev, sourceGroup, sourceIndex, targetGroup, targetIndex) ==
    LET whole == MapGetOrEmpty(prev, sourceGroup)
        removed == SpliceRemoved(whole, sourceIndex)
        sourceImageGroup == SpliceRemove(whole, sourceIndex)
        shifted == IF targetIndex > sourceIndex THEN targetIndex - 1 ELSE targetIndex
    IN  IF sourceGroup = targetGroup
        THEN MapSet(prev, sourceGroup, SpliceInsert(sourceImageGroup, shifted, removed))
        ELSE LET targetImageGroup == MapGetOrEmpty(prev, targetGroup)
                 withTarget == MapSet(prev, targetGroup,
                                      SpliceInsert(targetImageGroup, targetIndex, removed))
             IN  IF Len(sourceImageGroup) = 0
                 THEN MapDelete(withTarget, sourceGroup)
                 ELSE MapSet(withTarget, sourceGroup, sourceImageGroup)

\* Bucketed that walks the files from the last to the first.
RECURSIVE BucketedBackwards(_, _, _, _)
BucketedBackwards(fs, n, firstId, firstUrl) ==
    IF n = 0 THEN <<>>
    ELSE LET before == BucketedBackwards(fs, n - 1, firstId, firstUrl)
             at == Len(fs) - n + 1
             groupName == GroupNameOf(fs[at].name)
             image == [id |-> firstId + at - 1, file |-> fs[at],
                       url |-> firstUrl + at - 1, prefix |-> <<>>]
         IN  MapSet(before, groupName, Append(MapGetOrEmpty(before, groupName), image))

\* organizeImages that takes no files for a batch like any other.
organizeImagesAcceptsNoFiles ==
    /\ ~crashed
    /\ isLoading' = TRUE
    /\ error' = NoError
    /\ revoked' = revoked \cup UrlsOf(organizedImages)
    /\ organizedImages' = <<>>
    /\ timers' = Append(timers, files)
    /\ last' = Ran("organizeImages", <<files>>)
    /\ UNCHANGED <<files, isProcessingFiles, draggedItem, draggedGroupSku, dragging, imports,
                   nextId, nextUrl, crashed>>

\* ---------------------------------------------------- organize: lines 160-186

RECURSIVE SumLen(_)
SumLen(seqs) == IF seqs = <<>> THEN 0 ELSE Len(Head(seqs)) + SumLen(Tail(seqs))

\* The forEach of the timer callback: newOrganizedImages after the first n
\* files, the i-th file's image taking id firstId + i - 1 and URL firstUrl + i - 1.
RECURSIVE Bucketed(_, _, _, _)
Bucketed(fs, n, firstId, firstUrl) ==
    IF n = 0 THEN <<>>
    ELSE LET before == Bucketed(fs, n - 1, firstId, firstUrl)
             groupName == GroupNameOf(fs[n].name)
             image == [id |-> firstId + n - 1, file |-> fs[n],
                       url |-> firstUrl + n - 1, prefix |-> <<>>]
         IN  MapSet(before, groupName, Append(MapGetOrEmpty(before, groupName), image))

\* organizeImages up to the setTimeout call.
organizeImages ==
    /\ ~crashed
    /\ IF files = <<>>
       THEN /\ error' = ErrSelectFirst
            /\ UNCHANGED <<organizedImages, isLoading, timers, revoked>>
       ELSE /\ isLoading' = TRUE
            /\ error' = NoError
            /\ revoked' = revoked \cup UrlsOf(organizedImages)
            /\ organizedImages' = <<>>
            /\ timers' = Append(timers, files)
    /\ last' = Ran("organizeImages", <<files>>)
    /\ UNCHANGED <<files, isProcessingFiles, draggedItem, draggedGroupSku, dragging, imports,
                   nextId, nextUrl, crashed>>

\* The button: disabled={isProcessingFiles || isLoading || files.length === 0}
OrganizeEnabled == ~isProcessingFiles /\ ~isLoading /\ files # <<>>

\* The ids drawn so far and those the pending timers will draw.
IdsSpoken == nextId - 1 + SumLen(timers)

\* The callback of setTimeout(..., 50); timers of equal delay run in order.
OrganizeTimeout ==
    /\ ~crashed
    /\ timers # <<>>
    /\ organizedImages' = Bucketed(Head(timers), Len(Head(timers)), nextId, nextUrl)
    /\ nextId' = nextId + Len(Head(timers))
    /\ nextUrl' = nextUrl + Len(Head(timers))
    /\ isLoading' = FALSE
    /\ timers' = Tail(timers)
    /\ last' = Ran("OrganizeTimeout", <<Head(timers)>>)
    /\ UNCHANGED <<files, isProcessingFiles, error, draggedItem, draggedGroupSku,
                   dragging, imports, revoked, crashed>>

\* ------------------------------------------- the updaters of setOrganizedImages

\* handleDuplicateImage's updater; `id` is the crypto.randomUUID() it draws.
DuplicateUpdate(prev, sku, index, id) ==
    LET imageGroup == MapGetOrEmpty(prev, sku)
    IN  IF ~MapHas(prev, sku) THEN prev
        ELSE IF index >= Len(imageGroup) THEN prev
        ELSE MapSet(prev, sku,
                    SpliceInsert(imageGroup, index + 1,
                                 [imageGroup[index + 1] EXCEPT !.id = id]))

\* handleDeleteImage's updater.
DeleteImageUpdate(prev, sku, imageId) ==
    LET imageGroup == MapGetOrEmpty(prev, sku)
        newImageGroup == SelectSeq(imageGroup, LAMBDA img : img.id # imageId)
    IN  IF ~MapHas(prev, sku) THEN prev
        ELSE IF Len(newImageGroup) > 0 THEN MapSet(prev, sku, newImageGroup)
        ELSE MapDelete(prev, sku)

\* The URLs handleDeleteImage's updater revokes: that of the image it finds.
DeleteImageRevokes(prev, sku, imageId) ==
    {img.url : img \in {x \in Range(MapGetOrEmpty(prev, sku)) : x.id = imageId}}

\* handleDeleteGroup's updater.
DeleteGroupUpdate(prev, sku) == MapDelete(prev, sku)

\* handleSkuChange's updater.
SkuChangeUpdate(prev, oldSku, newSku) ==
    LET images == MapGetOrEmpty(prev, oldSku)
        newMap == MapDelete(prev, oldSku)
    IN  IF MapHas(newMap, newSku)
        THEN MapSet(newMap, newSku, MapGetOrEmpty(newMap, newSku) \o images)
        ELSE MapSet(newMap, newSku, images)

\* handleImagePrefixChange's updater.
ImagePrefixUpdate(prev, sku, imageId, newPrefix) ==
    LET imageGroup == MapGetOrEmpty(prev, sku)
    IN  IF ~MapHas(prev, sku) THEN prev
        ELSE MapSet(prev, sku,
                    [i \in 1..Len(imageGroup) |->
                        IF imageGroup[i].id = imageId
                        THEN [imageGroup[i] EXCEPT !.prefix = <<newPrefix>>]
                        ELSE imageGroup[i]])

\* handleDropReorder's updater.
DropReorderUpdate(prev, sourceGroup, sourceIndex, targetGroup, targetIndex) ==
    LET whole == MapGetOrEmpty(prev, sourceGroup)
        removed == SpliceRemoved(whole, sourceIndex)
        sourceImageGroup == SpliceRemove(whole, sourceIndex)
    IN  IF sourceGroup = targetGroup
        THEN MapSet(prev, sourceGroup, SpliceInsert(sourceImageGroup, targetIndex, removed))
        ELSE LET targetImageGroup == MapGetOrEmpty(prev, targetGroup)
                 withTarget == MapSet(prev, targetGroup,
                                      SpliceInsert(targetImageGroup, targetIndex, removed))
             IN  IF Len(sourceImageGroup) = 0
                 THEN MapDelete(withTarget, sourceGroup)
                 ELSE MapSet(withTarget, sourceGroup, sourceImageGroup)

\* handleGroupDrop's updater.
GroupDropUpdate(prev, sourceSku, targetSku) ==
    LET sourceImages == MapGetOrEmpty(prev, sourceSku)
        targetImages == MapGetOrEmpty(prev, targetSku)
    IN  MapDelete(MapSet(prev, targetSku, targetImages \o sourceImages), sourceSku)

\* --------------------------------------------------- the handlers of the grid

\* What every handler below leaves alone.
StoreFrame == UNCHANGED <<files, isLoading, isProcessingFiles, error, timers, imports, nextUrl>>

\* A render of a Map holding undefined throws at `const {id, url, file, prefix} = imageData`.
RenderThrows(m) == HasUndefined(m)

\* The duplicate button of the image at `index` (from 0) of group `sku`.
handleDuplicateImage(sku, index) ==
    /\ ~crashed
    /\ organizedImages' = DuplicateUpdate(organizedImages, sku, index, nextId)
    /\ nextId' = IF organizedImages' = organizedImages THEN nextId ELSE nextId + 1
    /\ last' = Ran("handleDuplicateImage", <<sku, index>>)
    /\ StoreFrame
    /\ UNCHANGED <<draggedItem, draggedGroupSku, dragging, revoked, crashed>>

\* The delete button of image `imageId` of group `sku`.
handleDeleteImage(sku, imageId) ==
    /\ ~crashed
    /\ organizedImages' = DeleteImageUpdate(organizedImages, sku, imageId)
    /\ revoked' = revoked \cup DeleteImageRevokes(organizedImages, sku, imageId)
    /\ last' = Ran("handleDeleteImage", <<sku, imageId>>)
    /\ StoreFrame
    /\ UNCHANGED <<draggedItem, draggedGroupSku, dragging, nextId, crashed>>

\* The delete button of group `sku`, window.confirm answered yes.
handleDeleteGroup(sku) ==
    /\ ~crashed
    /\ organizedImages' = DeleteGroupUpdate(organizedImages, sku)
    /\ revoked' = revoked \cup {img.url : img \in Range(MapGetOrEmpty(organizedImages, sku))}
    /\ last' = Ran("handleDeleteGroup", <<sku>>)
    /\ StoreFrame
    /\ UNCHANGED <<draggedItem, draggedGroupSku, dragging, nextId, crashed>>

\* The name field of group `oldSku` loses focus or gets Enter, holding `newSku`.
handleSkuChange(oldSku, newSku) ==
    /\ ~crashed
    /\ organizedImages' = IF newSku = <<>> \/ oldSku = newSku
                          THEN organizedImages
                          ELSE SkuChangeUpdate(organizedImages, oldSku, newSku)
    /\ last' = Ran("handleSkuChange", <<oldSku, newSku>>)
    /\ StoreFrame
    /\ UNCHANGED <<draggedItem, draggedGroupSku, dragging, revoked, nextId, crashed>>

\* The prefix field of image `imageId` of group `sku` changes to `newPrefix`.
handleImagePrefixChange(sku, imageId, newPrefix) ==
    /\ ~crashed
    /\ organizedImages' = ImagePrefixUpdate(organizedImages, sku, imageId, newPrefix)
    /\ last' = Ran("handleImagePrefixChange", <<sku, imageId, newPrefix>>)
    /\ StoreFrame
    /\ UNCHANGED <<draggedItem, draggedGroupSku, dragging, revoked, nextId, crashed>>

\* The node a drag started on is still in the document: the image's
\* container (key={id}) in the card of its group, or the group's card (key={sku}).
SourceMounted(m) ==
    IF dragging = <<>> THEN FALSE
    ELSE IF dragging[1].kind = "image"
    THEN \E x \in Range(MapGetOrEmpty(m, dragging[1].sku)) \ {Undefined} :
            x.id = dragging[1].id
    ELSE MapHas(m, dragging[1].sku)

\* What a drop leaves of the drag under way: its dragend is still to come.
Dropped == IF dragging = <<>> THEN <<>> ELSE <<[dragging[1] EXCEPT !.dropped = TRUE]>>
\* A drop ends a drag that has not dropped yet, or comes from outside the page.
CanDrop == IF dragging = <<>> THEN TRUE ELSE ~dragging[1].dropped

\* dragstart on the image at `index` (from 0) of group `group`.
handleDragStart(group, index) ==
    /\ ~crashed
    /\ dragging = <<>>
    /\ draggedItem' = <<[group |-> group, index |-> index]>>
    /\ dragging' = <<[kind |-> "image", sku |-> group,
                      id |-> MapGetOrEmpty(organizedImages, group)[index + 1].id,
                      dropped |-> FALSE]>>
    /\ last' = Ran("handleDragStart", <<group, index>>)
    /\ StoreFrame
    /\ UNCHANGED <<organizedImages, draggedGroupSku, revoked, nextId, crashed>>

\* A drop on the image at `targetIndex` of `targetGroup`, or on the group's
\* grid with targetIndex the group's length. draggedItem is left as it is.
handleDropReorder(targetGroup, targetIndex) ==
    /\ ~crashed
    /\ CanDrop
    /\ organizedImages' =
          IF draggedItem = <<>> THEN organizedImages
          ELSE DropReorderUpdate(organizedImages, draggedItem[1].group,
                                 draggedItem[1].index, targetGroup, targetIndex)
    /\ crashed' = RenderThrows(organizedImages')
    /\ dragging' = Dropped
    /\ last' = Ran("handleDropReorder", <<draggedItem, targetGroup, targetIndex>>)
    /\ StoreFrame
    /\ UNCHANGED <<draggedItem, draggedGroupSku, revoked, nextId>>

\* dragend on the image container the drag started on; it bubbles to the
\* group card's onDragEnd, handleGroupDragEnd.
handleDragEnd ==
    /\ ~crashed
    /\ SourceMounted(organizedImages)
    /\ dragging[1].kind = "image"
    /\ draggedItem' = <<>>
    /\ draggedGroupSku' = <<>>
    /\ dragging' = <<>>
    /\ last' = Ran("handleDragEnd", <<>>)
    /\ StoreFrame
    /\ UNCHANGED <<organizedImages, revoked, nextId, crashed>>

\* dragstart on the card of group `sku`, outside its images.
handleGroupDragStart(sku) ==
    /\ ~crashed
    /\ dragging = <<>>
    /\ draggedGroupSku' = <<sku>>
    /\ dragging' = <<[kind |-> "group", sku |-> sku, id |-> 0, dropped |-> FALSE]>>
    /\ last' = Ran("handleGroupDragStart", <<sku>>)
    /\ StoreFrame
    /\ UNCHANGED <<organizedImages, draggedItem, revoked, nextId, crashed>>

\* A drop on the card of `targetSku`, outside its image grid.
handleGroupDrop(targetSku) ==
    /\ ~crashed
    /\ CanDrop
    /\ IF draggedGroupSku = <<>> \/ draggedGroupSku = <<targetSku>>
       THEN UNCHANGED <<organizedImages, draggedGroupSku>>
       ELSE /\ organizedImages' = GroupDropUpdate(organizedImages, draggedGroupSku[1], targetSku)
            /\ draggedGroupSku' = <<>>
    /\ dragging' = Dropped
    /\ last' = Ran("handleGroupDrop", <<draggedGroupSku, targetSku>>)
    /\ StoreFrame
    /\ UNCHANGED <<draggedItem, revoked, nextId, crashed>>

\* dragend on the group card the drag started on.
handleGroupDragEnd ==
    /\ ~crashed
    /\ SourceMounted(organizedImages)
    /\ dragging[1].kind = "group"
    /\ draggedGroupSku' = <<>>
    /\ dragging' = <<>>
    /\ last' = Ran("handleGroupDragEnd", <<>>)
    /\ StoreFrame
    /\ UNCHANGED <<organizedImages, draggedItem, revoked, nextId, crashed>>

\* dragend on a node that has left the document: it reaches no handler.
DragEndLost ==
    /\ ~crashed
    /\ dragging # <<>>
    /\ ~SourceMounted(organizedImages)
    /\ dragging' = <<>>
    /\ last' = Ran("DragEndLost", <<>>)
    /\ StoreFrame
    /\ UNCHANGED <<organizedImages, draggedItem, draggedGroupSku, revoked, nextId, crashed>>

\* ------------------------------------------------------------------- Next

\* ------------------------------------------------- export: lines 251-308

DigitChars == <<"0", "1", "2", "3", "4", "5", "6", "7", "8", "9">>

\* `${n}`: the decimal digits of a natural number.
RECURSIVE Decimal(_)
Decimal(n) ==
    IF n < 10 THEN <<DigitChars[n + 1]>>
    ELSE Decimal(n \div 10) \o <<DigitChars[(n % 10) + 1]>>

\* (image.prefix === undefined ? filenamePrefix : image.prefix).trim()
effectivePrefix(image, global) ==
    Trim(IF image.prefix = <<>> THEN global ELSE image.prefix[1])

\* The name an image at `index` (from 0) of its group is stored under.
newFilename(image, index, global) ==
    IF effectivePrefix(image, global) # <<>>
    THEN Decimal(index + 1) \o <<"-">> \o effectivePrefix(image, global) \o <<"-">> \o image.file.name
    ELSE Decimal(index + 1) \o <<"-">> \o image.file.name

\* imageDatas.forEach(...zip.file(newFilename, file)): the paths of one
\* group's images, inside `folder` (a path ending in '/', or none).
GroupEntries(folder, imageDatas, global) ==
    [i \in 1..Len(imageDatas) |-> folder \o newFilename(imageDatas[i], i - 1, global)]

\* organizedImages.forEach(...zip.folder(sku)...): the paths of the whole store.
RECURSIVE AllEntries(_, _)
AllEntries(m, global) ==
    IF m = <<>> THEN <<>>
    ELSE GroupEntries(Head(m).sku \o <<"/">>, Head(m).images, global) \o AllEntries(Tail(m), global)

ZipSuffix == <<".", "z", "i", "p">>
AllArchiveName ==
    <<"o", "r", "g", "a", "n", "i", "z", "e", "d", "_", "i", "m", "a", "g", "e", "s">> \o ZipSuffix
FolderArchiveName(sku) == sku \o ZipSuffix

\* err.message, or the handler's own text.
ErrZipFailed == <<[msg |-> "Failed to create zip file.", failed |-> <<>>]>>

\* What the export handlers and the global prefix field leave alone.
ExportFrame ==
    UNCHANGED <<files, organizedImages, isLoading, isProcessingFiles, draggedItem, draggedGroupSku,
                dragging, timers, imports, revoked, nextId, nextUrl, crashed>>

\* Download All: returns at once on an empty store or a running export, else
\* fills the archive and waits at zip.generateAsync.
handleDownloadAll ==
    /\ ~crashed
    /\ IF organizedImages = <<>> \/ isAnyZipping
       THEN UNCHANGED <<isZippingAll, error, zipping>>
       ELSE /\ isZippingAll' = TRUE
            /\ error' = NoError
            /\ zipping' = Append(zipping, [all |-> TRUE, sku |-> <<>>, name |-> AllArchiveName,
                                           entries |-> AllEntries(organizedImages, filenamePrefix)])
    /\ last' = Ran("handleDownloadAll", <<>>)
    /\ UNCHANGED <<zippingFolder, filenamePrefix>>
    /\ ExportFrame

\* Download Folder of group `sku`, whose images the render passed as `imageDatas`.
handleDownloadSingleFolder(sku, imageDatas) ==
    /\ ~crashed
    /\ IF isAnyZipping
       THEN UNCHANGED <<zippingFolder, error, zipping>>
       ELSE /\ zippingFolder' = <<sku>>
            /\ error' = NoError
            /\ zipping' = Append(zipping, [all |-> FALSE, sku |-> sku, name |-> FolderArchiveName(sku),
                                           entries |-> GroupEntries(<<>>, imageDatas, filenamePrefix)])
    /\ last' = Ran("handleDownloadSingleFolder", <<sku, imageDatas>>)
    /\ UNCHANGED <<isZippingAll, filenamePrefix>>
    /\ ExportFrame

\* A faulty ZipSettled: the flag is cleared after the download only (no `finally`).
ZipSettledClearsOnSuccessOnly ==
    /\ ~crashed
    /\ \E i \in DOMAIN zipping :
        /\ \/ /\ last' = Ran("download", <<zipping[i].name, zipping[i].entries>>)
              /\ UNCHANGED error
              /\ IF zipping[i].all
                 THEN isZippingAll' = FALSE /\ UNCHANGED zippingFolder
                 ELSE zippingFolder' = <<>> /\ UNCHANGED isZippingAll
           \/ /\ last' = Ran("zipFailed", <<zipping[i].name>>)
              /\ error' = ErrZipFailed
              /\ UNCHANGED <<isZippingAll, zippingFolder>>
        /\ zipping' = SubSeq(zipping, 1, i - 1) \o SubSeq(zipping, i + 1, Len(zipping))
    /\ UNCHANGED filenamePrefix
    /\ ExportFrame

\* zip.generateAsync settles: the archive is downloaded, or the error is
\* recorded; the handler's `finally` clears its flag either way.
ZipSettled ==
    /\ ~crashed
    /\ \E i \in DOMAIN zipping :
        /\ \/ /\ last' = Ran("download", <<zipping[i].name, zipping[i].entries>>)
              /\ UNCHANGED error
           \/ /\ last' = Ran("zipFailed", <<zipping[i].name>>)
              /\ error' = ErrZipFailed
        /\ IF zipping[i].all
           THEN isZippingAll' = FALSE /\ UNCHANGED zippingFolder
           ELSE zippingFolder' = <<>> /\ UNCHANGED isZippingAll
        /\ zipping' = SubSeq(zipping, 1, i - 1) \o SubSeq(zipping, i + 1, Len(zipping))
    /\ UNCHANGED filenamePrefix
    /\ ExportFrame

\* onChange of the global prefix field: setFilenamePrefix(e.target.value).
setFilenamePrefix(value) ==
    /\ ~crashed
    /\ filenamePrefix' = value
    /\ last' = Ran("setFilenamePrefix", <<value>>)
    /\ UNCHANGED <<isZippingAll, zippingFolder, zipping, error>>
    /\ ExportFrame

\* The groups and images the latest render shows: what an event can name.
Rendered == IF crashed THEN {} ELSE MapKeys(organizedImages)
IndicesOf(sku) == 0..(Len(MapGetOrEmpty(organizedImages, sku)) - 1)
IdsOf(sku) == {img.id : img \in Range(MapGetOrEmpty(organizedImages, sku))}
\* value={prefix || ''}: what the prefix field of image `imageId` shows.
ShownPrefix(sku, imageId) ==
    LET img == CHOOSE x \in Range(MapGetOrEmpty(organizedImages, sku)) : x.id = imageId
    IN  IF img.prefix = <<>> THEN <<>> ELSE img.prefix[1]

\* A click or a keystroke on the grid; there is none while a drag is under way.
GridEvent(idCap, skuInputs) ==
    /\ dragging = <<>>
    /\ \E sku \in Rendered :
          \/ \E index \in IndicesOf(sku) : nextId <= idCap /\ handleDuplicateImage(sku, index)
          \/ \E imageId \in IdsOf(sku) : handleDeleteImage(sku, imageId)
          \/ ~isAnyZipping /\ handleDeleteGroup(sku)
          \/ \E newSku \in skuInputs : handleSkuChange(sku, newSku)
          \/ \E imageId \in IdsOf(sku) : \E newPrefix \in PrefixInputs :
                newPrefix # ShownPrefix(sku, imageId)
                /\ handleImagePrefixChange(sku, imageId, newPrefix)

\* A drag starts on an image or on a group's card.
DragStart ==
    \E sku \in Rendered :
        \/ \E index \in IndicesOf(sku) : handleDragStart(sku, index)
        \/ handleGroupDragStart(sku)

\* The drag under way, or one of files from outside the page, drops on an
\* image, on a group's grid, or on a group's card.
Drop ==
    \E sku \in Rendered :
        \/ \E targetIndex \in 0..Len(MapGetOrEmpty(organizedImages, sku)) :
              handleDropReorder(sku, targetIndex)
        \/ handleGroupDrop(sku)

\* The drag under way ends, dropped or given up.
DragEnd == handleDragEnd \/ handleGroupDragEnd \/ DragEndLost

\* A click on the Organize button, while ids are left for its files.
ClickOrganize(idCap) ==
    /\ dragging = <<>>
    /\ OrganizeEnabled
    /\ Len(timers) < MaxTimers
    /\ IdsSpoken + Len(files) <= idCap
    /\ organizeImages

\* Files chosen in the file dialog or dropped on the drop zone.
Import(selections) ==
    /\ dragging = <<>>
    /\ \E incoming \in selections :
          /\ ZipFilesOf(incoming) # <<>> => Len(imports) < MaxImports
          /\ \/ handleFileChange(incoming)
             \/ handleDropUpload(incoming)

\* The component from its mount, for runs of any length.
Next ==
    \/ Import(Selections) /\ UNCHANGED ops /\ ExportIdle
    \/ ProcessSettled /\ UNCHANGED ops /\ ExportIdle
    \/ ClickOrganize(MaxIds) /\ UNCHANGED ops /\ ExportIdle
    \/ OrganizeTimeout /\ UNCHANGED ops /\ ExportIdle
    \/ GridEvent(MaxIds, SkuInputs) /\ UNCHANGED ops /\ ExportIdle
    \/ DragStart /\ UNCHANGED ops /\ ExportIdle
    \/ Drop /\ UNCHANGED ops /\ ExportIdle
    \/ DragEnd /\ UNCHANGED ops /\ ExportIdle

Spec == Init /\ [][Next]_vars

\* The component from its mount, with longer lists of files: imports and
\* organizing first, then at most MaxOps clicks, keystrokes and drops on the grid.
NextOps ==
    \/ ops = 0 /\ Import(OpsSelections) /\ UNCHANGED ops /\ ExportIdle
    \/ ProcessSettled /\ UNCHANGED ops /\ ExportIdle
    \/ ops = 0 /\ ClickOrganize(MaxOpsIds) /\ UNCHANGED ops /\ ExportIdle
    \/ OrganizeTimeout /\ UNCHANGED ops /\ ExportIdle
    \/ ops < MaxOps /\ GridEvent(MaxOpsIds, OpsSkuInputs) /\ ops' = ops + 1 /\ ExportIdle
    \/ ops < MaxOps /\ DragStart /\ UNCHANGED ops /\ ExportIdle
    \/ ops < MaxOps /\ Drop /\ ops' = ops + 1 /\ ExportIdle
    \/ DragEnd /\ UNCHANGED ops /\ ExportIdle

SpecOps == Init /\ [][NextOps]_vars

\* organizeImages called as a function, whatever the button's state, before
\* the events on the grid.
CallOrganize ==
    /\ ops = 0
    /\ Len(timers) < MaxTimers
    /\ IdsSpoken + Len(files) <= MaxOpsIds
    /\ organizeImages
    /\ UNCHANGED ops
    /\ ExportIdle

\* handleDropReorder called as a function on a group key of the caller's
\* choice, in the store or not, and an index within that group.
CallKeys == {<<"a">>, <<"z">>}
CallDropReorder ==
    /\ ops < MaxOps
    /\ \E targetGroup \in CallKeys :
          \E targetIndex \in 0..Len(MapGetOrEmpty(organizedImages, targetGroup)) :
              handleDropReorder(targetGroup, targetIndex)
    /\ ops' = ops + 1
    /\ ExportIdle

\* The bounded runs whose events on the grid are drags and drops, with the
\* two handlers called as functions besides.
NextHandlers ==
    \/ ops = 0 /\ Import(OpsSelections) /\ UNCHANGED ops /\ ExportIdle
    \/ ProcessSettled /\ UNCHANGED ops /\ ExportIdle
    \/ ops = 0 /\ ClickOrganize(MaxOpsIds) /\ UNCHANGED ops /\ ExportIdle
    \/ OrganizeTimeout /\ UNCHANGED ops /\ ExportIdle
    \/ ops < MaxOps /\ DragStart /\ UNCHANGED ops /\ ExportIdle
    \/ ops < MaxOps /\ Drop /\ ops' = ops + 1 /\ ExportIdle
    \/ DragEnd /\ UNCHANGED ops /\ ExportIdle
    \/ CallOrganize
    \/ CallDropReorder

SpecHandlers == Init /\ [][NextHandlers]_vars

\* ---- the handlers of the store called as functions

MaxCalls == 3

\* handleDuplicateImage on a key of the caller's choice and an index in the
\* group or past its end.
CallDuplicateImage ==
    /\ ops < MaxCalls
    /\ nextId <= MaxOpsIds
    /\ \E sku \in CallKeys : \E index \in 0..(Len(MapGetOrEmpty(organizedImages, sku)) + 1) :
          handleDuplicateImage(sku, index)
    /\ ops' = ops + 1
    /\ ExportIdle

\* handleDeleteImage on a key and an id of the caller's choice.
CallDeleteImage ==
    /\ ops < MaxCalls
    /\ \E sku \in CallKeys : \E imageId \in 1..(MaxOpsIds + 1) : handleDeleteImage(sku, imageId)
    /\ ops' = ops + 1
    /\ ExportIdle

\* handleImagePrefixChange on a key and an id of the caller's choice.
CallImagePrefixChange ==
    /\ ops < MaxCalls
    /\ \E sku \in CallKeys : \E imageId \in 1..(MaxOpsIds + 1) : \E newPrefix \in PrefixInputs :
          handleImagePrefixChange(sku, imageId, newPrefix)
    /\ ops' = ops + 1
    /\ ExportIdle

\* handleGroupDrop on a target key of the caller's choice.
CallTargets == CallKeys \cup {<<"b">>}
CallGroupDrop ==
    /\ ops < MaxCalls
    /\ \E targetSku \in CallTargets : handleGroupDrop(targetSku)
    /\ ops' = ops + 1
    /\ ExportIdle

\* The files of these runs: images only, in groups of one and of two.
CallSelections == { <<PngDot, PngB, PngA1>>, <<PngA1, PngB, PngA2>> }

\* The bounded runs whose events on the store are the four handlers above,
\* among drags that start and end.
NextCalls ==
    \/ ops = 0 /\ Import(CallSelections) /\ UNCHANGED ops /\ ExportIdle
    \/ ops = 0 /\ ClickOrganize(MaxOpsIds) /\ UNCHANGED ops /\ ExportIdle
    \/ OrganizeTimeout /\ UNCHANGED ops /\ ExportIdle
    \/ ops < MaxCalls /\ DragStart /\ UNCHANGED ops /\ ExportIdle
    \/ DragEnd /\ UNCHANGED ops /\ ExportIdle
    \/ CallDuplicateImage
    \/ CallDeleteImage
    \/ CallImagePrefixChange
    \/ CallGroupDrop

SpecCalls == Init /\ [][NextCalls]_vars

\* ---- the unmount

\* The component is unmounted: the cleanup of the effect with no dependencies
\* runs. It is the first render's closure, whose organizedImages is the
\* initial empty Map, and the URLs of that Map are what it revokes.
Unmount ==
    /\ ~crashed
    /\ revoked' = revoked \cup UrlsOf(<<>>)
    /\ crashed' = TRUE
    /\ last' = Ran("unmount", <<>>)
    /\ UNCHANGED <<files, organizedImages, isLoading, isProcessingFiles, error, draggedItem,
                   draggedGroupSku, dragging, timers, imports, nextId, nextUrl>>

\* The component from its mount to its unmount.
NextUnmount ==
    \/ Next
    \/ Unmount /\ UNCHANGED ops /\ ExportIdle

SpecUnmount == Init /\ [][NextUnmount]_vars

\* ---- imports that overlap

MaxImportRuns == 2
ImportSelections ==
    { <<PngA1, ZipGood, ZipBad, TxtN>>, <<ZipGood>>, <<PngB, ZipBad>>, <<PngA1, PngB>>, <<TxtN>> }

\* Files chosen or dropped, while other imports may be waiting for their archives.
ImportAmongImports ==
    /\ dragging = <<>>
    /\ Len(imports) < MaxImportRuns
    /\ \E incoming \in ImportSelections :
          \/ handleFileChange(incoming)
          \/ handleDropUpload(incoming)

\* Imports, their settling and organizing, and nothing else.
NextImport ==
    \/ ImportAmongImports /\ UNCHANGED ops /\ ExportIdle
    \/ ProcessSettled /\ UNCHANGED ops /\ ExportIdle
    \/ ClickOrganize(MaxOpsIds) /\ UNCHANGED ops /\ ExportIdle
    \/ OrganizeTimeout /\ UNCHANGED ops /\ ExportIdle

SpecImport == Init /\ [][NextImport]_vars

\* ---- the key extractor on its own

MaxNameLen == 4
NameChars == {"a", "1", "-", "_", ".", "(", ")", " "}
ShortNames == UNION {[1..n -> NameChars] : n \in 1..MaxNameLen}

Code1 == <<"1", "2", "3", "4", "5", "6", "-", "1", "2", "3", "4", "5", "-", "1", "2", "3">>
Code2 == <<"6", "5", "4", "3", "2", "1", "-", "5", "4", "3", "2", "1", "-", "3", "2", "1">>
CodeBefore == {<<>>, <<"a">>, <<"7">>, <<"a", "-", "1", "_">>, <<" ", "(">>}
CodeAfter == {<<>>, <<".", "p", "n", "g">>, <<"-", "2", ".", "p", "n", "g">>, <<"9">>, <<"_">>,
              <<" ", "(", "2", ")", ".", "j", "p", "g">>, <<"_">> \o Code2}
CodeNames == {before \o Code1 \o after : before \in CodeBefore, after \in CodeAfter}
\* A digit short of a code.
NearCodeNames == {before \o Tail(Code1) \o after : before \in {<<>>, <<"a">>}, after \in CodeAfter}
Filenames == ShortNames \cup CodeNames \cup NearCodeNames

\* One file with a name of Filenames has been selected.
InitExtract ==
    /\ files \in {<<[name |-> n, type |-> "image/png"]>> : n \in Filenames}
    /\ organizedImages = <<>>
    /\ isLoading = FALSE
    /\ isProcessingFiles = FALSE
    /\ error = NoError
    /\ draggedItem = <<>>
    /\ draggedGroupSku = <<>>
    /\ dragging = <<>>
    /\ timers = <<>>
    /\ imports = <<>>
    /\ revoked = {}
    /\ nextId = 1
    /\ nextUrl = 1
    /\ crashed = FALSE
    /\ last = [op |-> "mount", args |-> <<>>]
    /\ ops = 0
    /\ isZippingAll = FALSE
    /\ zippingFolder = <<>>
    /\ filenamePrefix = DefaultPrefix
    /\ zipping = <<>>

\* getSkuFromFilename called on the file's name: the name, the key returned,
\* the working strings of its loop and the group `sku || 'Unidentified'`.
CallGetSku ==
    /\ last.op = "mount"
    /\ last' = Ran("getSkuFromFilename",
                   <<files[1].name,
                     getSkuFromFilename(files[1].name),
                     StripSuffixTrace(StripParenthesized(Trim(StripExtension(files[1].name))),
                                      Len(files[1].name) + 2),
                     GroupNameOf(files[1].name)>>)
    /\ UNCHANGED <<files, organizedImages, isLoading, isProcessingFiles, error, draggedItem,
                   draggedGroupSku, dragging, timers, imports, revoked, nextId, nextUrl, crashed,
                   ops>>
    /\ ExportIdle

NextExtract == CallGetSku

SpecExtract == InitExtract /\ [][NextExtract]_vars

\* What the fields and buttons of an export session are given.
ExportSelections == { <<PngA1, PngB, PngA2>> }
ExportPrefixInputs == {<<"x">>, <<>>, <<" ">>}
GlobalPrefixInputs == {DefaultPrefix, <<>>, <<" ", "g">>}

\* A keystroke in the prefix field of an image.
PrefixKeystroke ==
    /\ dragging = <<>>
    /\ \E sku \in Rendered : \E imageId \in IdsOf(sku) : \E newPrefix \in ExportPrefixInputs :
          /\ newPrefix # ShownPrefix(sku, imageId)
          /\ handleImagePrefixChange(sku, imageId, newPrefix)

\* A keystroke in the global prefix field.
GlobalPrefixKeystroke ==
    /\ dragging = <<>>
    /\ \E value \in GlobalPrefixInputs : value # filenamePrefix /\ setFilenamePrefix(value)

\* The export handlers called on what the render shows, whatever the state of
\* their buttons.
CallDownloadAll == dragging = <<>> /\ handleDownloadAll
CallDownloadSingleFolder ==
    /\ dragging = <<>>
    /\ \E sku \in Rendered : handleDownloadSingleFolder(sku, MapGetOrEmpty(organizedImages, sku))

\* The bounded runs with exports: at most MaxOps clicks and keystrokes on the
\* grid, and exports and changes of the global prefix among them.
NextExport ==
    \/ ops = 0 /\ Import(ExportSelections) /\ UNCHANGED ops /\ ExportIdle
    \/ ops = 0 /\ ClickOrganize(MaxOpsIds) /\ UNCHANGED ops /\ ExportIdle
    \/ OrganizeTimeout /\ UNCHANGED ops /\ ExportIdle
    \/ ops < MaxOps /\ GridEvent(MaxOpsIds, SkuInputs) /\ ops' = ops + 1 /\ ExportIdle
    \/ ops < MaxOps /\ PrefixKeystroke /\ ops' = ops + 1 /\ ExportIdle
    \/ GlobalPrefixKeystroke /\ UNCHANGED ops
    \/ CallDownloadAll /\ UNCHANGED ops
    \/ CallDownloadSingleFolder /\ UNCHANGED ops
    \/ ZipSettled /\ UNCHANGED ops

SpecExport == Init /\ [][NextExport]_vars

\* The same runs, where a promise of zip.generateAsync that is pending settles.
SpecExportFair == SpecExport /\ WF_vars(ZipSettled /\ UNCHANGED ops)

\* ------------------------------------------------------------- properties

KeyA == <<"a">>
KeyB == <<"b">>
KeyZ == <<"z">>

IsItem(x) == x # Undefined
ItemsIn(list) == SelectSeq(list, IsItem)
IdsIn(list) == [i \in 1..Len(list) |-> list[i].id]
Without(list, at) == SubSeq(list, 1, at - 1) \o SubSeq(list, at + 1, Len(list))
EntryCount(m) == SumLen([i \in DOMAIN m |-> m[i].images])
StoreIds(m) == {x.id : x \in {y \in AllImages(m) : IsItem(y)}}
Positions(m) == UNION {{<<i, j>> : j \in 1..Len(m[i].images)} : i \in DOMAIN m}
\* Every group but those of `keys` is in both stores with the same images.
OthersUnchanged(prev, next, keys) ==
    /\ MapKeys(prev) \ keys = MapKeys(next) \ keys
    /\ \A k \in MapKeys(prev) \ keys : MapGetOrEmpty(next, k) = MapGetOrEmpty(prev, k)

ItemIdsUnique ==
    \A p, q \in Positions(organizedImages) :
        LET x == organizedImages[p[1]].images[p[2]]
            y == organizedImages[q[1]].images[q[2]]
        IN  (p # q /\ IsItem(x) /\ IsItem(y)) => x.id # y.id

\* A step that is not the building of a fresh store adds an entry only by
\* duplicating, and the entry it adds has an id the store did not hold.
OnlyDuplicateAddsEntry ==
    (last'.op # "OrganizeTimeout" /\ EntryCount(organizedImages') > EntryCount(organizedImages))
    => /\ last'.op = "handleDuplicateImage"
       /\ EntryCount(organizedImages') = EntryCount(organizedImages) + 1
       /\ StoreIds(organizedImages') \ StoreIds(organizedImages) # {}

\* C2: in every reachable state each item id occurs once in the whole store,
\* and duplicating is the only operation that adds an entry, whose id is fresh.
ItemIdsUniqueOnlyDuplicateAdds ==
    []ItemIdsUnique /\ [][OnlyDuplicateAddsEntry]_vars

\* C3: renaming group a to the name of another group b leaves b holding its
\* own images followed by a's, both in their order, a gone, the rest as it was.
RenameMergeAppends ==
    [][\A a, b \in MapKeys(organizedImages) :
          (a # b /\ last' = Ran("handleSkuChange", <<a, b>>)) =>
              /\ MapGetOrEmpty(organizedImages', b) =
                    MapGetOrEmpty(organizedImages, b) \o MapGetOrEmpty(organizedImages, a)
              /\ ~MapHas(organizedImages', a)
              /\ OthersUnchanged(organizedImages, organizedImages', {a, b})]_vars

\* C3, witness: group a (images 1 and 3) was renamed to b (image 2).
RenamedIntoExisting ==
    /\ last = Ran("handleSkuChange", <<KeyA, KeyB>>)
    /\ ~MapHas(organizedImages, KeyA)
    /\ IdsIn(MapGetOrEmpty(organizedImages, KeyB)) = <<2, 1, 3>>

\* C4: dropping the card of group s on the card of another group t appends
\* s's images, in order, to t's, removes s, and leaves the rest as it was.
GroupDropAppends ==
    [][\A s, t \in MapKeys(organizedImages) :
          (s # t /\ last' = Ran("handleGroupDrop", <<<<s>>, t>>)) =>
              /\ MapGetOrEmpty(organizedImages', t) =
                    MapGetOrEmpty(organizedImages, t) \o MapGetOrEmpty(organizedImages, s)
              /\ ~MapHas(organizedImages', s)
              /\ OthersUnchanged(organizedImages, organizedImages', {s, t})]_vars

\* C4, witness: the card of group a (images 1 and 3) was dropped on b (image 2).
GroupCardDropped ==
    /\ last = Ran("handleGroupDrop", <<<<KeyA>>, KeyB>>)
    /\ ~MapHas(organizedImages, KeyA)
    /\ IdsIn(MapGetOrEmpty(organizedImages, KeyB)) = <<2, 1, 3>>

\* C5: duplicating the image at `index` of a group makes the group one longer,
\* with a copy right after the original that has an id new to the store and
\* the original's file, URL and prefix; nothing else changes.
DuplicateInsertsCopyAfter ==
    [][\A sku \in MapKeys(organizedImages) :
          \A index \in 0..(Len(MapGetOrEmpty(organizedImages, sku)) - 1) :
              last' = Ran("handleDuplicateImage", <<sku, index>>) =>
                  LET old == MapGetOrEmpty(organizedImages, sku)
                      new == MapGetOrEmpty(organizedImages', sku)
                  IN  /\ Len(new) = Len(old) + 1
                      /\ new[index + 1] = old[index + 1]
                      /\ new[index + 2].id \notin StoreIds(organizedImages)
                      /\ new[index + 2].file = old[index + 1].file
                      /\ new[index + 2].url = old[index + 1].url
                      /\ new[index + 2].prefix = old[index + 1].prefix
                      /\ Without(new, index + 2) = old
                      /\ OthersUnchanged(organizedImages, organizedImages', {sku})]_vars

\* C5, witness: the first image of group a, its prefix set, was duplicated.
DuplicatedWithPrefix ==
    /\ last = Ran("handleDuplicateImage", <<KeyA, 0>>)
    /\ Len(MapGetOrEmpty(organizedImages, KeyA)) = 3
    /\ MapGetOrEmpty(organizedImages, KeyA)[1].prefix = << <<"x">> >>
    /\ MapGetOrEmpty(organizedImages, KeyA)[2].prefix = << <<"x">> >>
    /\ MapGetOrEmpty(organizedImages, KeyA)[2].id # MapGetOrEmpty(organizedImages, KeyA)[1].id

\* C6: deleting an image of a group removes that image alone, keeps the order
\* of the others, leaves the other groups as they were, and removes the group
\* when the image was its last.
DeleteRemovesOneItem ==
    [][\A sku \in MapKeys(organizedImages) :
          \A at \in DOMAIN MapGetOrEmpty(organizedImages, sku) :
              LET old == MapGetOrEmpty(organizedImages, sku)
              IN  last' = Ran("handleDeleteImage", <<sku, old[at].id>>) =>
                      /\ IF Len(old) = 1
                         THEN ~MapHas(organizedImages', sku)
                         ELSE /\ MapHas(organizedImages', sku)
                              /\ MapGetOrEmpty(organizedImages', sku) = Without(old, at)
                      /\ OthersUnchanged(organizedImages, organizedImages', {sku})]_vars

\* C6, witness: the middle image of group a (images 1, 2, 3) was deleted.
MiddleImageDeleted ==
    /\ last = Ran("handleDeleteImage", <<KeyA, 2>>)
    /\ IdsIn(MapGetOrEmpty(organizedImages, KeyA)) = <<1, 3>>

\* C7: a drop that moves the image at a valid place of group s to targetIndex
\* of another group t takes it out of s and puts it at targetIndex of t,
\* making t when the store has none; s is removed when that leaves it empty.
MoveAcrossGroups ==
    [][(/\ last'.op = "handleDropReorder"
        /\ draggedItem # <<>>
        /\ last'.args = <<draggedItem, last'.args[2], last'.args[3]>>)
       => LET s == draggedItem[1].group
              sourceIndex == draggedItem[1].index
              t == last'.args[2]
              targetIndex == last'.args[3]
              source == MapGetOrEmpty(organizedImages, s)
              target == MapGetOrEmpty(organizedImages, t)
          IN  (s # t /\ sourceIndex < Len(source) /\ targetIndex <= Len(target))
              => /\ MapHas(organizedImages', t)
                 /\ MapGetOrEmpty(organizedImages', t) =
                       SubSeq(target, 1, targetIndex) \o <<source[sourceIndex + 1]>>
                       \o SubSeq(target, targetIndex + 1, Len(target))
                 /\ IF Len(source) = 1
                    THEN ~MapHas(organizedImages', s)
                    ELSE /\ MapHas(organizedImages', s)
                         /\ MapGetOrEmpty(organizedImages', s) =
                               Without(source, sourceIndex + 1)
                 /\ OthersUnchanged(organizedImages, organizedImages', {s, t})]_vars

\* C7, witness: the only image of group b was dropped on the second image of
\* group a (images 1 and 3).
OnlyImageMovedAcross ==
    /\ last = Ran("handleDropReorder", << <<[group |-> KeyB, index |-> 0]>>, KeyA, 1 >>)
    /\ ~MapHas(organizedImages, KeyB)
    /\ IdsIn(MapGetOrEmpty(organizedImages, KeyA)) = <<1, 2, 3>>

\* C8: a drop that moves the image at fromIndex of a group to toIndex of the
\* same group leaves it at toIndex of the new list, or last when toIndex is
\* the list's length or more; the others keep their order, the length is the
\* same, and the other groups are as they were.
ReorderWithinGroup ==
    [][\A g \in MapKeys(organizedImages) :
          \A fromIndex \in 0..(Len(MapGetOrEmpty(organizedImages, g)) - 1) :
              \A toIndex \in 0..Len(MapGetOrEmpty(organizedImages, g)) :
                  last' = Ran("handleDropReorder",
                              << <<[group |-> g, index |-> fromIndex]>>, g, toIndex >>)
                  => LET old == MapGetOrEmpty(organizedImages, g)
                         new == MapGetOrEmpty(organizedImages', g)
                         at == IF toIndex >= Len(old) - 1 THEN Len(old) - 1 ELSE toIndex
                     IN  /\ Len(new) = Len(old)
                         /\ new[at + 1] = old[fromIndex + 1]
                         /\ Without(new, at + 1) = Without(old, fromIndex + 1)
                         /\ OthersUnchanged(organizedImages, organizedImages', {g})]_vars

\* C8, witness: the first image of group a (images 1, 2, 3) was dropped on
\* the group's grid, which gives the old length as toIndex.
FirstImageDroppedOnGrid ==
    /\ last = Ran("handleDropReorder", << <<[group |-> KeyA, index |-> 0]>>, KeyA, 3 >>)
    /\ IdsIn(MapGetOrEmpty(organizedImages, KeyA)) = <<2, 3, 1>>

\* The key organize files `file` under.
KeyOfFile(file) == GroupNameOf(file.name)
FirstSeen(fs, key) == Min({i \in DOMAIN fs : KeyOfFile(fs[i]) = key})
FilesIn(list) == [i \in 1..Len(list) |-> list[i].file]

\* C9: organizing a list of files that is not empty empties the store and
\* then fills it with one group for each key of the list, in the order the
\* keys first occur, each holding the files of its key in the list's order
\* as images with ids no store held before.
OrganizeBucketsInOrder ==
    [][/\ (last'.op = "organizeImages" /\ files # <<>>) => organizedImages' = <<>>
       /\ last'.op = "OrganizeTimeout" =>
             LET fs == Head(timers)
                 next == organizedImages'
             IN  /\ MapKeys(next) = {KeyOfFile(fs[i]) : i \in DOMAIN fs}
                 /\ \A i, j \in DOMAIN next :
                       i < j => FirstSeen(fs, next[i].sku) < FirstSeen(fs, next[j].sku)
                 /\ \A i \in DOMAIN next :
                       FilesIn(next[i].images) =
                          SelectSeq(fs, LAMBDA f : KeyOfFile(f) = next[i].sku)
                 /\ \A x \in AllImages(next) : x.id >= nextId /\ x.prefix = <<>>
                 /\ ItemIdsUnique']_vars

\* C9, witness: a-1.png, b.png and a_2.png were organized, one after another.
OrganizedTwoGroups ==
    /\ last.op = "OrganizeTimeout"
    /\ Len(organizedImages) = 2
    /\ organizedImages[1].sku = KeyA
    /\ organizedImages[2].sku = KeyB
    /\ FilesIn(organizedImages[1].images) = <<PngA1, PngA2>>
    /\ FilesIn(organizedImages[2].images) = <<PngB>>

\* C10 as the specification states it: organizing with no files gives an
\* empty store and reports no error.
OrganizeNoFilesEmptyStoreNoError ==
    [][last' = Ran("organizeImages", << <<>> >>) =>
          organizedImages' = <<>> /\ error' = NoError]_vars

\* C10: organizing with no files reports "Please select some images first."
\* and leaves the store, the busy flag and the timers as they were.
OrganizeNoFilesReportsError ==
    [][last' = Ran("organizeImages", << <<>> >>) =>
          /\ error' = ErrSelectFirst
          /\ organizedImages' = organizedImages
          /\ isLoading' = isLoading
          /\ timers' = timers
          /\ revoked' = revoked]_vars

\* C10, witness: organizeImages ran with no files over a store that holds groups.
OrganizedNoFilesOverGroups ==
    /\ last = Ran("organizeImages", << <<>> >>)
    /\ error = ErrSelectFirst
    /\ organizedImages # <<>>

\* C11: a step that imports a batch of files (file dialog or drop zone) or
\* starts organizing one empties the store and has every URL of the images
\* it discards revoked.
ReplacementReleasesUrls ==
    [][(\/ last'.op \in {"handleFileChange", "handleDropUpload"}
        \/ (last'.op = "organizeImages" /\ files # <<>>))
       => /\ organizedImages' = <<>>
          /\ UrlsOf(organizedImages) \subseteq revoked']_vars

\* The path the export is to store an item under: its 1-based position, the
\* trimmed effective prefix when that is not empty, and the file's name, inside
\* the group's folder when `inFolder`.
ExpectedPath(K, i, item, global, inFolder) ==
    LET P == Trim(IF item.prefix # <<>> THEN item.prefix[1] ELSE global)
    IN  (IF inFolder THEN K \o <<"/">> ELSE <<>>)
        \o Decimal(i)
        \o (IF P # <<>> THEN <<"-">> \o P ELSE <<>>)
        \o <<"-">> \o item.file.name

ExpectedAll(m, global) ==
    {ExpectedPath(m[p[1]].sku, p[2], m[p[1]].images[p[2]], global, TRUE) : p \in Positions(m)}

ExpectedFolder(sku, imageDatas, global) ==
    {ExpectedPath(sku, i, imageDatas[i], global, FALSE) : i \in DOMAIN imageDatas}

LatestArchive == zipping[Len(zipping)]

\* C12: an export that starts stores every item i of group K with file name F
\* under 'K/i-P-F' when its effective prefix P (the item's override when set,
\* be it empty, else the global prefix of that moment), trimmed, is not empty,
\* and under 'K/i-F' otherwise; the export of one group leaves 'K/' out.
ExportPathsFollowPrefix ==
    [][/\ (last'.op = "handleDownloadAll" /\ ~isZippingAll /\ isZippingAll')
          => /\ Range(LatestArchive'.entries) = ExpectedAll(organizedImages, filenamePrefix)
             /\ Len(LatestArchive'.entries) = EntryCount(organizedImages)
       /\ (last'.op = "handleDownloadSingleFolder" /\ zippingFolder = <<>> /\ zippingFolder' # <<>>)
          => /\ Range(LatestArchive'.entries)
                  = ExpectedFolder(last'.args[1], MapGetOrEmpty(organizedImages, last'.args[1]),
                                   filenamePrefix)
             /\ Len(LatestArchive'.entries) = Len(MapGetOrEmpty(organizedImages, last'.args[1]))]_vars

\* C12 witness: the whole store is being exported under the global prefix
\* 'eci' with an image whose override is the empty string, stored as 'K/i-F'.
ExportedEmptyOverrideUnderEci ==
    /\ last.op = "handleDownloadAll"
    /\ isZippingAll
    /\ filenamePrefix = DefaultPrefix
    /\ \E g \in DOMAIN organizedImages : \E i \in DOMAIN organizedImages[g].images :
          /\ organizedImages[g].images[i].prefix = << <<>> >>
          /\ organizedImages[g].sku \o <<"/">> \o Decimal(i) \o <<"-">>
                \o organizedImages[g].images[i].file.name \in Range(LatestArchive.entries)

\* ---- the key extractor

\* getSkuFromFilename has run: last.args holds the filename, the key, the
\* loop's working strings and the group.
Extracted == last.op = "getSkuFromFilename"

\* Six digits, a hyphen, five digits, a hyphen, three digits.
IsCode(s) ==
    /\ Len(s) = 16
    /\ \A i \in 1..16 : IF i \in {7, 13} THEN s[i] = "-" ELSE s[i] \in Digits
CodeStarts(f) == {i \in 1..(Len(f) - 15) : IsCode(SubSeq(f, i, i + 15))}

\* C13: a filename holding six digits, '-', five digits, '-', three digits
\* gets the first such substring as its key, whatever stands before or after
\* it, with nothing stripped from it.
StructuredCodeIsKey ==
    (Extracted /\ CodeStarts(last.args[1]) # {})
        => last.args[2] = SubSeq(last.args[1], Min(CodeStarts(last.args[1])),
                                 Min(CodeStarts(last.args[1])) + 15)

\* C13 witness: the key of '7' + code + '_' + a second code is the first code.
FirstCodeAmongText ==
    /\ Extracted
    /\ last.args[1] = <<"7">> \o Code1 \o <<"_">> \o Code2
    /\ last.args[2] = Code1

\* The text before the last '.'; the whole name when it has no '.', for
\* there is no extension to strip.
ExtensionStripped(f) ==
    IF \A i \in 1..Len(f) : f[i] # "." THEN f
    ELSE SubSeq(f, 1, Max({i \in 1..Len(f) : f[i] = "."}) - 1)

\* s ends in '-', in '_' or in one of them followed by digits.
EndsInSuffix(s) ==
    /\ s # <<>>
    /\ \/ s[Len(s)] \in Separators
       \/ \E p \in 1..(Len(s) - 1) : s[p] \in Separators /\ AllDigits(s, p + 1, Len(s))

\* s without its trailing run of '[-_]<digits>' and lone '[-_]': the one
\* prefix of s that does not end in such a suffix and whose rest is made of them.
SuffixesRemoved(s) ==
    LET cuts == {k \in 0..Len(s) :
                    /\ ~EndsInSuffix(SubSeq(s, 1, k))
                    /\ k < Len(s) => /\ s[k + 1] \in Separators
                                     /\ \A q \in (k + 1)..Len(s) : s[q] \in Separators \cup Digits}
    IN  SubSeq(s, 1, CHOOSE k \in cuts : TRUE)

\* The name the stripping works on (surrounding white space aside) and what
\* the stripping is to leave of it.
WorkingName(f) == Trim(ExtensionStripped(f))
StrippedName(f) == SuffixesRemoved(StripParenthesized(WorkingName(f)))

\* C14: without a structured code and with a non-empty stripped result, the
\* key is the extension-stripped name less one parenthesized suffix at its end
\* and less every trailing '[-_]<digits>' and lone '[-_]'; it ends in none of them.
KeyIsStrippedName ==
    (Extracted /\ CodeStarts(last.args[1]) = {} /\ StrippedName(last.args[1]) # <<>>)
        => /\ last.args[2] = StrippedName(last.args[1])
           /\ ~EndsInSuffix(last.args[2])

\* C15: the loop ends within length + 1 iterations, and every iteration but
\* the one it exits on leaves the working string strictly shorter.
LoopShortensOrExits ==
    Extracted =>
        LET trace == last.args[3]
            n == Len(trace)
        IN  /\ n >= 2
            /\ trace[n] = trace[n - 1] \/ trace[n] = <<>>
            /\ n - 1 <= Len(trace[1]) + 1
            /\ \A k \in 1..(n - 2) : Len(trace[k + 1]) < Len(trace[k])

\* C15 witness: a name of separators and digits only went through two
\* iterations or more and the loop exited on the empty string.
SeparatorsAndDigitsStripped ==
    /\ Extracted
    /\ Len(last.args[3]) >= 3
    /\ \A i \in 1..Len(last.args[3][1]) : last.args[3][1][i] \in Separators \cup Digits
    /\ last.args[3][Len(last.args[3])] = <<>>

\* C16: without a structured code the key is empty only when the
\* extension-stripped name is empty, and it is the extension-stripped name
\* when the stripping leaves nothing of a non-empty one; a file is grouped
\* under 'Unidentified' only on an empty key.
EmptyKeyOnlyForEmptyName ==
    (Extracted /\ CodeStarts(last.args[1]) = {})
        => /\ last.args[2] = <<>> => WorkingName(last.args[1]) = <<>>
           /\ (StrippedName(last.args[1]) = <<>> /\ WorkingName(last.args[1]) # <<>>)
                 => last.args[2] = WorkingName(last.args[1])
           /\ last.args[4] = Unidentified
                 => (last.args[2] = <<>> \/ last.args[2] = Unidentified)

\* ---- handlers given what the store does not hold

ImagesOf(sku) == MapGetOrEmpty(organizedImages, sku)

\* C17: duplicating in a missing group or at an index past the group's end,
\* deleting an id its group does not hold (or from a missing group) and
\* setting the prefix of an id its group does not hold (or in a missing
\* group) leave the store as it was, nothing revoked, the component standing.
MissingItemLeavesStore ==
    [][(\/ /\ last'.op = "handleDuplicateImage"
           /\ \/ ~MapHas(organizedImages, last'.args[1])
              \/ last'.args[2] >= Len(ImagesOf(last'.args[1]))
        \/ /\ last'.op \in {"handleDeleteImage", "handleImagePrefixChange"}
           /\ last'.args[2] \notin Range(IdsIn(ImagesOf(last'.args[1]))))
       => /\ organizedImages' = organizedImages
          /\ revoked' = revoked
          /\ nextId' = nextId
          /\ ~crashed']_vars

\* C19: a merge whose source is its target, or whose source or target is not
\* in the store, leaves the store as it was.
MergeOfMissingOrSameIsNoOp ==
    [][IF last'.op = "handleGroupDrop" /\ draggedGroupSku # <<>>
       THEN (\/ draggedGroupSku[1] = last'.args[2]
             \/ ~MapHas(organizedImages, draggedGroupSku[1])
             \/ ~MapHas(organizedImages, last'.args[2]))
            => organizedImages' = organizedImages
       ELSE TRUE]_vars

\* C18: a drop whose recorded source group is no longer in the store, or whose
\* recorded index is past that group's end, leaves the store as it was; no
\* group gains an entry that is not an item.
StaleDropIsNoOp ==
    [][IF last'.op = "handleDropReorder" /\ draggedItem # <<>>
       THEN (\/ ~MapHas(organizedImages, draggedItem[1].group)
             \/ draggedItem[1].index >= Len(ImagesOf(draggedItem[1].group)))
            => /\ organizedImages' = organizedImages
               /\ ~HasUndefined(organizedImages')
       ELSE TRUE]_vars

\* ---- exports

ExportTriggers == {"handleDownloadAll", "handleDownloadSingleFolder"}

\* C20: one export at most is in progress: a trigger that comes while an
\* export runs changes nothing, the two busy flags never hold together, and
\* the group being exported does not change to another without the flag
\* having been cleared.
OneExportAtATime ==
    [][/\ (isAnyZipping /\ last'.op \in ExportTriggers)
          => UNCHANGED <<isZippingAll, zippingFolder, zipping, error, organizedImages>>
       /\ ~(isZippingAll' /\ zippingFolder' # <<>>)
       /\ (zippingFolder # <<>> /\ zippingFolder' # <<>>) => zippingFolder' = zippingFolder
       /\ Len(zipping') <= 1]_vars

\* C20 witness: the export of one group was asked for while the export of the
\* whole store was running, and was ignored.
FolderExportIgnoredDuringAll ==
    /\ last.op = "handleDownloadSingleFolder"
    /\ isZippingAll
    /\ zippingFolder = <<>>
    /\ Len(zipping) = 1
    /\ zipping[1].all

ExportSteps == ExportTriggers \cup {"download", "zipFailed"}

\* C21: the steps of an export (its trigger, its download, its failure) leave
\* the store as it was; a failure records an error; and a busy flag that is
\* set is cleared in the end, after which a trigger is accepted again.
ExportLeavesStoreAndEnds ==
    /\ [][/\ last'.op \in ExportSteps => organizedImages' = organizedImages
          /\ last'.op = "zipFailed" => error' # NoError
          /\ (last'.op \in ExportTriggers /\ ~isAnyZipping /\ organizedImages # <<>>)
                => isAnyZipping']_vars
    /\ isZippingAll ~> ~isAnyZipping
    /\ (zippingFolder # <<>>) ~> ~isAnyZipping

\* C21 witness: the export of the whole store failed: the store is still
\* there, the error is recorded and no flag is set.
ExportFailedFlagCleared ==
    /\ last.op = "zipFailed"
    /\ last.args[1] = AllArchiveName
    /\ organizedImages # <<>>
    /\ error = ErrZipFailed
    /\ ~isAnyZipping

\* ---- imports and organizing

ImportTriggers == {"handleFileChange", "handleDropUpload"}

\* C22: an import that comes while files are being processed, and an organize
\* that comes while one is under way, start no second run and leave the file
\* list, the store and the busy flags as they were.
SecondBuildTriggerIgnored ==
    [][(\/ isProcessingFiles /\ last'.op \in ImportTriggers
        \/ isLoading /\ last'.op = "organizeImages")
       => UNCHANGED <<files, organizedImages, isProcessingFiles, isLoading, imports, timers>>]_vars

\* The import whose archives have settled in this step.
SettledImports == {i \in DOMAIN imports : imports' = Without(imports, i)}
FailedZips(run) == {z \in Range(run.zips) : ~ZipReadable(z)}
DecodedImages(run) ==
    UNION {Range(extractImagesFromZip(z)) : z \in {y \in Range(run.zips) : ZipReadable(y)}}

\* C23: when the archives of an import have settled, the file list holds
\* every image given directly and every image of every archive that decoded,
\* whether or not another archive failed; the error is one message that names
\* every archive that failed, and there is none when none failed.
FailedArchiveSparesTheOthers ==
    [][last'.op = "ProcessSettled"
       => \E i \in SettledImports :
            /\ Range(imports[i].images) \subseteq Range(files')
            /\ DecodedImages(imports[i]) \subseteq Range(files')
            /\ Len(files') = Len(imports[i].images)
                               + SumLen([k \in DOMAIN imports[i].zips |->
                                            IF ZipReadable(imports[i].zips[k])
                                            THEN extractImagesFromZip(imports[i].zips[k])
                                            ELSE <<>>])
            /\ IF FailedZips(imports[i]) = {}
               THEN error' = NoError
               ELSE /\ Len(error') = 1
                    /\ {z.name : z \in FailedZips(imports[i])} \subseteq Range(error'[1].failed)]_vars

\* A file the import takes for neither an image nor an archive.
Rejected(f) == ~IsZip(f) /\ ~TypeStartsWithImage(f.type)

\* C24: an import all of whose files are rejected as neither image nor
\* archive leaves an error for the user to see.
AllRejectedIsReported ==
    [][(/\ last'.op \in ImportTriggers
        /\ \A k \in DOMAIN last'.args[1] : Rejected(last'.args[1][k]))
       => error' # NoError]_vars

\* ---- the store's order and its items

\* C25: renaming a group of the store to a non-empty key no group uses puts
\* the group's images under the new key at the place the group had in the
\* store's order, and leaves every other group where and as it was.
RenameKeepsPlace ==
    [][(/\ last'.op = "handleSkuChange"
        /\ MapHas(organizedImages, last'.args[1])
        /\ last'.args[2] # <<>>
        /\ ~MapHas(organizedImages, last'.args[2]))
       => /\ Len(organizedImages') = Len(organizedImages)
          /\ \A g \in DOMAIN organizedImages :
                organizedImages'[g] =
                    IF organizedImages[g].sku = last'.args[1]
                    THEN [sku |-> last'.args[2], images |-> organizedImages[g].images]
                    ELSE organizedImages[g]]_vars

\* C26: no item of the store shows a preview URL that has been revoked.
NoItemShowsRevokedUrl ==
    \A x \in {y \in AllImages(organizedImages) : IsItem(y)} : x.url \notin revoked

\* C27: every item of the store is of a file of the current file list: after
\* an import has started, no organize that was pending fills the store with
\* the files of the batch before.
StoreItemsAreOfCurrentFiles ==
    \A x \in {y \in AllImages(organizedImages) : IsItem(y)} : x.file \in Range(files)

\* How many entries of store m are x.
CountOf(x, m) == Cardinality({p \in Positions(m) : m[p[1]].images[p[2]] = x})

MovingOps == {"handleDropReorder", "handleGroupDrop", "handleSkuChange"}

\* C28: a reorder, a move, a merge and a rename leave the store with the
\* entries it had, each as many times as before and with its id, its file and
\* its prefix: none is lost, copied or invented.
MovesConserveItems ==
    [][last'.op \in MovingOps
       => \A x \in AllImages(organizedImages) \cup AllImages(organizedImages') :
             CountOf(x, organizedImages') = CountOf(x, organizedImages)]_vars

\* C29: the unmount has the preview URL of every item then in the store revoked.
UnmountReleasesUrls ==
    [][last'.op = "unmount" => UrlsOf(organizedImages) \subseteq revoked']_vars

====
